---------------------------- MODULE Spec2Model ----------------------------
(***************************************************************************)
(* DetectMissingDatasets.py: reconciliation of the GDC file inventory with *)
(* the datasets of the Xena hub, for one run of the script.                *)
(*                                                                         *)
(* Python strings are TLA+ strings; lists are sequences; list(set(...))    *)
(* results, whose order Python leaves unspecified, are sets (or bags when  *)
(* equal elements can occur).  A key that is absent from a JSON record is  *)
(* the value Absent.  The GDC file_id of the i-th record of a response is  *)
(* i (file ids are unique within a response).                              *)
(***************************************************************************)
EXTENDS Integers, Sequences, FiniteSets, Bags, TLC

VARIABLES
    project_id_list,        \* projects of the run (line 671)
    pidx,                   \* position of the main loop (line 672)
    pc,                     \* where the script is
    file_list,              \* response of file_request (line 598)
    fidx,                   \* position of the loop of file_metadata (line 263)
    data_set_list,          \* list of Data_set objects (lines 600, 602)
    missing_file_list,      \* files that match no dataset (line 599)
    files_created,          \* number of File objects constructed (line 302)
    didx,                   \* position of the loop of test_project (line 612)
    samples,                \* last response of xena_dataset (line 617)
    missing_data_sets,      \* names of the datasets missing from Xena (line 606)
    data_sets_missing_sample, \* names of the datasets with a wrong count (line 607)
    missing_ids,            \* dataset name -> ids missing from Xena (line 608)
    missing_ids_GDC,        \* dataset name -> ids missing from the GDC (line 609)
    not_in_datasets,        \* missing_ids["not_in_datasets"] (line 636)
    total_MDS, total_CMDS, total_DSMS, total_CDSMS, total_MDT, total_CMDT,
    tsv_written             \* to_tsv has run (line 676)

vars == <<project_id_list, pidx, pc, file_list, fidx, data_set_list,
          missing_file_list, files_created, didx, samples, missing_data_sets,
          data_sets_missing_sample, missing_ids, missing_ids_GDC,
          not_in_datasets, total_MDS, total_CMDS, total_DSMS, total_CDSMS,
          total_MDT, total_CMDT, tsv_written>>

---------------------------------------------------------------------------
(* Bounds *)

\* Longest GDC response built from the core records.
MaxFiles == 2

---------------------------------------------------------------------------
(* Constants of the script *)

UNUSED_DATA_TYPE ==
    {"Slide Image", "Biospecimen Supplement", "Clinical Supplement",
     "Masked Intensities", "Pathology Report",
     "Isoform Expression Quantification", "Tissue Microarray Image"}

UNUSED_EXPERIMENTAL_STRATEGY == {"scRNA-Seq"}

TUMOR_DATA_TYPE ==
    {"Copy Number Segment", "Masked Copy Number Segment",
     "Gene Level Copy Number", "Masked Somatic Mutation",
     "Allele-specific Copy Number Segment"}

\* The dataset catalog the script imports from xena_dataset, in the order of
\* its items: the name and the criteria given for it.  A criterion that is not
\* given is Absent.  The entries stand for the catalog: a dataset of two
\* criteria, a second one of the same criteria, one with a strategy and one
\* with a platform.
Absent == "<absent>"

_XENA_GDC_DTYPE ==
    << [name |-> "star_counts",
        data_type |-> "Gene Expression Quantification",
        workflow_type |-> "STAR - Counts",
        platform |-> Absent, experimental_strategy |-> Absent],
       [name |-> "star_counts_copy",
        data_type |-> "Gene Expression Quantification",
        workflow_type |-> "STAR - Counts",
        platform |-> Absent, experimental_strategy |-> Absent],
       [name |-> "segment_cnv",
        data_type |-> "Copy Number Segment",
        workflow_type |-> Absent,
        platform |-> Absent, experimental_strategy |-> "WGS"],
       [name |-> "methylation450",
        data_type |-> "Methylation Beta Value",
        workflow_type |-> Absent,
        platform |-> "Illumina Human Methylation 450",
        experimental_strategy |-> Absent] >>

---------------------------------------------------------------------------
(* Python string operations *)

UpperCase == "ABCDEFGHIJKLMNOPQRSTUVWXYZ"
LowerCase == "abcdefghijklmnopqrstuvwxyz"

\* The lower-case letter of every upper-case letter.
LowerOf ==
    [c \in {SubSeq(UpperCase, k, k) : k \in 1..Len(UpperCase)} |->
        LET k == CHOOSE k \in 1..Len(UpperCase) : SubSeq(UpperCase, k, k) = c
        IN  SubSeq(LowerCase, k, k)]

\* str.lower() of one character.
LowerChar(c) == IF c \in DOMAIN LowerOf THEN LowerOf[c] ELSE c

\* str.lower()
RECURSIVE lower(_)
lower(s) == IF s = "" THEN "" ELSE LowerChar(Head(s)) \o lower(Tail(s))

\* s[:-1]
DropLast(s) == IF s = "" THEN "" ELSE SubSeq(s, 1, Len(s) - 1)

\* sep.join(list)
RECURSIVE join(_, _)
join(sep, list) ==
    IF list = <<>> THEN ""
    ELSE IF Len(list) = 1 THEN list[1]
    ELSE list[1] \o sep \o join(sep, Tail(list))

\* [s for s in list if len(s) > 0]
RECURSIVE NonEmpty(_)
NonEmpty(list) ==
    IF list = <<>> THEN <<>>
    ELSE IF Len(list[1]) > 0 THEN <<list[1]>> \o NonEmpty(Tail(list))
    ELSE NonEmpty(Tail(list))

---------------------------------------------------------------------------
(* Classes *)

\* Data_set.__init__
Data_set(name, data_type, workflow_type, platform, experimental_strategy, project_id) ==
    [name |-> name, data_type |-> data_type, workflow_type |-> workflow_type,
     platform |-> platform, experimental_strategy |-> experimental_strategy,
     project_id |-> project_id, files |-> <<>>]

\* File.__init__
File(file_id, data_type, workflow_type, platform, experimental_strategy, submitter_id, project_id) ==
    [file_id |-> file_id, data_type |-> data_type,
     workflow_type |-> workflow_type, platform |-> platform,
     experimental_strategy |-> experimental_strategy,
     submitter_id |-> submitter_id, project_id |-> project_id]

\* What File.__eq__ compares and File.__hash__ hashes.
FileKey(f) ==
    <<f.data_type, f.workflow_type, f.platform, f.experimental_strategy>>

\* File.__eq__
FileEq(f, g) == FileKey(f) = FileKey(g)

---------------------------------------------------------------------------
(* create_data_set *)

\* value[key] if key in value, else ''
Criterion(v) == IF v = Absent THEN "" ELSE v

create_data_set(project_id) ==
    [k \in 1..Len(_XENA_GDC_DTYPE) |->
        Data_set(_XENA_GDC_DTYPE[k].name,
                 Criterion(_XENA_GDC_DTYPE[k].data_type),
                 Criterion(_XENA_GDC_DTYPE[k].workflow_type),
                 Criterion(_XENA_GDC_DTYPE[k].platform),
                 Criterion(_XENA_GDC_DTYPE[k].experimental_strategy),
                 project_id)]

---------------------------------------------------------------------------
(* match_to_data_set *)

\* The test without .lower().
FieldMatches_CaseSensitive(required, actual) ==
    (required = "") \/ (required = actual)

\* One of the four tests of lines 325-332.
FieldMatches(required, actual) ==
    (required = "") \/ (lower(required) = lower(actual))

\* match_count == 4
MatchCount4(data_set, file) ==
    /\ FieldMatches(data_set.data_type, file.data_type)
    /\ FieldMatches(data_set.workflow_type, file.workflow_type)
    /\ FieldMatches(data_set.platform, file.platform)
    /\ FieldMatches(data_set.experimental_strategy, file.experimental_strategy)

\* The loop of lines 323-343 from dataset k on: the first dataset whose four
\* tests pass gets the file and the function returns; a loop that ends without
\* a match appends the file to missing_file_list.
RECURSIVE MatchFrom(_, _, _, _)
MatchFrom(mfl, dsl, file, k) ==
    IF k > Len(dsl)
    THEN [data_set_list |-> dsl, missing_file_list |-> Append(mfl, file)]
    ELSE IF MatchCount4(dsl[k], file)
    THEN [data_set_list |-> [dsl EXCEPT ![k].files = Append(@, file)],
          missing_file_list |-> mfl]
    ELSE MatchFrom(mfl, dsl, file, k + 1)

\* match_to_data_set without the return of line 339: every dataset whose four
\* tests pass gets the file.
match_to_data_set_NoReturn(mfl, dsl, file) ==
    [data_set_list |->
        [k \in 1..Len(dsl) |->
            IF MatchCount4(dsl[k], file)
            THEN [dsl[k] EXCEPT !.files = Append(@, file)]
            ELSE dsl[k]],
     missing_file_list |->
        IF \E k \in 1..Len(dsl) : MatchCount4(dsl[k], file)
        THEN mfl ELSE Append(mfl, file)]

\* The two lists after match_to_data_set(missing_file_list, data_set_list, file).
match_to_data_set(mfl, dsl, file) == MatchFrom(mfl, dsl, file, 1)

---------------------------------------------------------------------------
(* file_metadata *)

\* key in file
In(file, key) == file[key] # Absent

\* file[key] if key in file, else '' (lines 267-279)
Get(file, key) == IF In(file, key) THEN file[key] ELSE ""

\* The condition without its test of the experimental strategy.
Used_AnyStrategy(data_type, workflow_type, experimental_strategy) ==
    /\ ~(data_type \in UNUSED_DATA_TYPE)
    /\ ~((data_type = "Copy Number Segment") /\ (workflow_type = "DNAcopy"))

\* The condition of lines 281 and 291: the file is of a kind Xena uses.
Used(data_type, workflow_type, experimental_strategy) ==
    /\ ~(data_type \in UNUSED_DATA_TYPE)
    /\ ~((data_type = "Copy Number Segment") /\ (workflow_type = "DNAcopy"))
    /\ ~(experimental_strategy \in UNUSED_EXPERIMENTAL_STRATEGY)

Returned(submitter_id) == [raised |-> FALSE, submitter_id |-> submitter_id]
Raised == [raised |-> TRUE, submitter_id |-> ""]

\* The scan without its test of the tissue type: the first sample is taken.
TumorScan_AnyTissue(sample_info, k, project_id, case_id) ==
    IF k > Len(sample_info) THEN Returned("")
    ELSE IF project_id = "CPTAC-3" THEN Returned(case_id)
    ELSE IF sample_info[k].submitter_id = Absent THEN Raised
    ELSE Returned(sample_info[k].submitter_id)

\* The loops of lines 285-288 and 294-297 from sample k on.  case_id is
\* file["cases"][0]["submitter_id"], which CPTAC-3 takes instead of the sample's.
RECURSIVE TumorScan(_, _, _, _)
TumorScan(sample_info, k, project_id, case_id) ==
    IF k > Len(sample_info) THEN Returned("")
    ELSE IF sample_info[k].tissue_type = Absent THEN Raised
    ELSE IF sample_info[k].tissue_type = "Tumor"
    THEN IF project_id = "CPTAC-3" THEN Returned(case_id)
         ELSE IF sample_info[k].submitter_id = Absent THEN Raised
         ELSE Returned(sample_info[k].submitter_id)
    ELSE TumorScan(sample_info, k + 1, project_id, case_id)

\* Lines 290 and 299: the id of a file whose data type is not tumor-only.
FirstSample(sample_info, project_id, case_id) ==
    IF project_id = "CPTAC-3" THEN Returned(case_id)
    ELSE IF Len(sample_info) = 0 THEN Raised
    ELSE IF sample_info[1].submitter_id = Absent THEN Raised
    ELSE Returned(sample_info[1].submitter_id)

\* Lines 280-299: the submitter id of a file, '' for a file that is dropped;
\* raised when a subscript fails (KeyError, IndexError).
SubmitterId(file, project_id) ==
    LET data_type == Get(file, "data_type")
        workflow_type == Get(file, "workflow_type")
        experimental_strategy == Get(file, "experimental_strategy")
    IN  IF ~Used(data_type, workflow_type, experimental_strategy)
        THEN Returned("")
        ELSE IF ~file.has_cases THEN Raised
        ELSE IF ~file.case.has_samples THEN Raised
        ELSE IF data_type \in TUMOR_DATA_TYPE
        THEN TumorScan(file.case.samples, 1, project_id, file.case.submitter_id)
        ELSE FirstSample(file.case.samples, project_id, file.case.submitter_id)

\* Lines 301-303 for the file at position file_id of the response.
file_metadata_body(file, file_id, dsl, project_id, mfl) ==
    LET r == SubmitterId(file, project_id)
    IN  IF r.raised
        THEN [raised |-> TRUE, created |-> 0,
              data_set_list |-> dsl, missing_file_list |-> mfl]
        ELSE IF Len(r.submitter_id) > 0
        THEN LET f == File(file_id, Get(file, "data_type"),
                           Get(file, "workflow_type"), Get(file, "platform"),
                           Get(file, "experimental_strategy"),
                           r.submitter_id, dsl[1].project_id)
                 m == match_to_data_set(mfl, dsl, f)
             IN  [raised |-> FALSE, created |-> 1,
                  data_set_list |-> m.data_set_list,
                  missing_file_list |-> m.missing_file_list]
        ELSE [raised |-> FALSE, created |-> 0,
              data_set_list |-> dsl, missing_file_list |-> mfl]

---------------------------------------------------------------------------
(* What the GDC and the Xena hub may answer *)

ProjectIds == {"TCGA-BRCA", "CPTAC-3", "BEATAML1.0-COHORT"}

Sample(tissue_type, submitter_id) ==
    [tissue_type |-> tissue_type, submitter_id |-> submitter_id]

SampleLists ==
    { <<>>,
      <<Sample("Tumor", "ABC1")>>,
      <<Sample("Normal", "ABC1")>>,
      <<Sample("Normal", "ABC1"), Sample("Tumor", "ABC2")>>,
      <<Sample("Tumor", "ABC2"), Sample("Tumor", "ABC1")>>,
      <<Sample(Absent, "ABC1")>>,
      <<Sample("Tumor", Absent)>> }

Case(has_samples, sample_info) ==
    [has_samples |-> has_samples, samples |-> sample_info,
     submitter_id |-> "C3L-1"]

RawFile(data_type, workflow_type, platform, experimental_strategy, has_cases, case) ==
    [data_type |-> data_type, workflow_type |-> workflow_type,
     platform |-> platform, experimental_strategy |-> experimental_strategy,
     has_cases |-> has_cases, case |-> case]

\* A record without "cases", one whose case has no "samples", or one with a
\* sample list.
CaseShapes ==
    {[has_cases |-> FALSE, case |-> Case(FALSE, <<>>)],
     [has_cases |-> TRUE, case |-> Case(FALSE, <<>>)]}
    \cup {[has_cases |-> TRUE, case |-> Case(TRUE, sl)] : sl \in SampleLists}

DataTypeValues ==
    {Absent, "Slide Image", "Copy Number Segment",
     "Gene Expression Quantification", "gene expression quantification",
     "Methylation Beta Value"}
WorkflowValues == {Absent, "DNAcopy", "STAR - Counts"}
PlatformValues == {Absent, "Illumina Human Methylation 450"}
StrategyValues == {Absent, "scRNA-Seq", "WGS"}

\* Every record over the field values above.
RawFiles ==
    {RawFile(dt, wf, pl, st, c.has_cases, c.case) :
        dt \in DataTypeValues, wf \in WorkflowValues, pl \in PlatformValues,
        st \in StrategyValues, c \in CaseShapes}

\* The records that responses of several files are built from: a file of
\* star_counts, a file of segment_cnv, a file of no dataset and a slide image,
\* each of sample ABC1 or ABC2.
CoreFiles ==
    {RawFile(m[1], m[2], Absent, m[3], TRUE,
             Case(TRUE, <<Sample("Tumor", id)>>)) :
        m \in {<<"Gene Expression Quantification", "STAR - Counts", Absent>>,
               <<"Copy Number Segment", Absent, "WGS">>,
               <<"Gene Expression Quantification", Absent, Absent>>,
               <<"Slide Image", Absent, Absent>>},
        id \in {"ABC1", "ABC2"}}

\* file_request: no file, any one record, or up to MaxFiles core records.
FileLists ==
    {<<>>} \cup {<<r>> : r \in RawFiles}
    \cup UNION {[1..n -> CoreFiles] : n \in 2..MaxFiles}

\* xena.dataset_samples: the dataset's sample ids; empty for a dataset that the
\* hub does not have.
XenaSamples ==
    { <<>>, <<"ABC1">>, <<"ABC">>, <<"C3L-1">>, <<"ABC1", "ABC2">>,
      <<"ABC1", "S4">>, <<"ABC1", "ABC2", "S4">> }

---------------------------------------------------------------------------
(* prune_data_sets, compare_datasets, compare_samples *)

\* The elements of a list.
Elements(list) == {list[k] : k \in 1..Len(list)}

\* The test of line 378 left out: every dataset of the catalog is kept.
Kept_EveryDataSet(data_set) == Len(data_set.files) >= 0

\* The test of line 378 as len(data_set.files) > 1.
Kept_MoreThanOne(data_set) == Len(data_set.files) > 1

\* if len(data_set.files) > 0 (line 378)
Kept(data_set) == Len(data_set.files) > 0

RECURSIVE prune_data_sets(_)
prune_data_sets(dsl) ==
    IF dsl = <<>> THEN <<>>
    ELSE IF Kept(dsl[1]) THEN <<dsl[1]>> \o prune_data_sets(Tail(dsl))
    ELSE prune_data_sets(Tail(dsl))

\* compare_datasets without the loop of lines 415-416.
compare_datasets_NoAppend(xena_samples, mfl, data_set) ==
    IF Len(xena_samples) = 0
    THEN [missing |-> TRUE, missing_file_list |-> mfl]
    ELSE [missing |-> FALSE, missing_file_list |-> mfl]

\* The flag and the list that compare_datasets returns.
compare_datasets(xena_samples, mfl, data_set) ==
    IF Len(xena_samples) = 0
    THEN [missing |-> TRUE, missing_file_list |-> mfl \o data_set.files]
    ELSE [missing |-> FALSE, missing_file_list |-> mfl]

\* The id without the special case of line 436.
ComparedId_Unchanged(file, project_id) == file.submitter_id

\* Lines 436-441: the id that stands for a file in the comparison.
ComparedId(file, project_id) ==
    IF project_id = "BEATAML1.0-COHORT" THEN DropLast(file.submitter_id)
    ELSE file.submitter_id

\* set(submitter_id_list) (line 444)
submitter_id_set(data_set, project_id) ==
    {ComparedId(data_set.files[k], project_id) : k \in 1..Len(data_set.files)}

\* The flag without lines 466-467: Xena having more samples is not flagged.
WrongCount_OnlyFewer(xena_set, gdc_set) ==
    IF Cardinality(xena_set) = Cardinality(gdc_set) THEN FALSE
    ELSE IF Cardinality(xena_set) < Cardinality(gdc_set) THEN TRUE
    ELSE FALSE

\* Lines 459-467: the flag for the two sets.
WrongCount(xena_set, gdc_set) ==
    IF Cardinality(xena_set) = Cardinality(gdc_set) THEN FALSE
    ELSE IF Cardinality(xena_set) < Cardinality(gdc_set) THEN TRUE
    ELSE TRUE

\* missing_ids_GDC_dtype as the ids of Xena, without the difference.
MissingIdsGDC_NoDifference(gdc_set, xena_set) == xena_set

\* missing_ids (line 446) and missing_ids_GDC_dtype (line 447)
MissingIds(gdc_set, xena_set) == gdc_set \ xena_set
MissingIdsGDC(gdc_set, xena_set) == xena_set \ gdc_set

\* The flag and the two lists, in no order, that compare_samples returns.
compare_samples(xena_samples, data_set, project_id) ==
    LET gdc_set == submitter_id_set(data_set, project_id)
        xena_set == Elements(xena_samples)
    IN  [wrong |-> WrongCount(xena_set, gdc_set),
         missing_ids |-> MissingIds(gdc_set, xena_set),
         missing_ids_GDC_dtype |-> MissingIdsGDC(gdc_set, xena_set)]

---------------------------------------------------------------------------
(* remove_missing_duplicates *)

\* The set with the test of equality inverted: a file is added when it is
\* equal to one added before.
unique_set_Inverted(list) ==
    {list[k] : k \in {k \in 1..Len(list) :
                        \E j \in 1..(k - 1) : FileEq(list[j], list[k])}}

\* set(missing_file_list) (line 358): the files are added in the order of the
\* list, and a file equal (File.__eq__) to one of the set is not added.
unique_set(list) ==
    {list[k] : k \in {k \in 1..Len(list) :
                        \A j \in 1..(k - 1) : ~FileEq(list[j], list[k])}}

\* Lines 360-362: the fields of a file that are not empty, joined by "/".
Joined(f) ==
    join("/", NonEmpty(<<f.data_type, f.workflow_type, f.platform,
                         f.experimental_strategy>>))

\* The strings of the list that remove_missing_duplicates returns, with the
\* number of times each occurs: the order of list(set(...)) is unspecified.
StringsOf(files) ==
    [s \in {Joined(f) : f \in files} |->
        Cardinality({f \in files : Joined(f) = s})]

remove_missing_duplicates(mfl) == StringsOf(unique_set(mfl))

---------------------------------------------------------------------------
(* The script *)

\* A dictionary value that is None, or one that has been assigned.
None == <<>>
Some(v) == <<v>>

\* test_check: the project given on the command line (lines 523-524).
ProjectLists == {<<p>> : p \in ProjectIds}

\* The project of the running test_project call.
project_id == project_id_list[pidx]

\* Lines 99-105 and the first turn of the loop of line 672.
Start ==
    /\ pidx = 1
    /\ pc = "main_loop"
    /\ file_list = <<>>
    /\ fidx = 1
    /\ data_set_list = <<>>
    /\ missing_file_list = <<>>
    /\ files_created = 0
    /\ didx = 1
    /\ samples = <<>>
    /\ missing_data_sets = <<>>
    /\ data_sets_missing_sample = <<>>
    /\ missing_ids = <<>>
    /\ missing_ids_GDC = <<>>
    /\ not_in_datasets = {}
    /\ total_MDS = <<>>
    /\ total_CMDS = <<>>
    /\ total_DSMS = <<>>
    /\ total_CDSMS = <<>>
    /\ total_MDT = <<>>
    /\ total_CMDT = <<>>
    /\ tsv_written = FALSE

Init == project_id_list \in ProjectLists /\ Start

\* Lines 672-674 and 595-601: the loop calls test_project, which requests the
\* files of the project, creates the datasets and calls file_metadata.
FileRequestFrom(responses) ==
    /\ pc = "main_loop"
    /\ pidx <= Len(project_id_list)
    /\ \E response \in responses : file_list' = response
    /\ missing_file_list' = <<>>
    /\ data_set_list' = create_data_set(project_id)
    /\ files_created' = 0
    /\ fidx' = 1
    /\ pc' = "file_metadata"
    /\ UNCHANGED <<project_id_list, pidx, didx, samples, missing_data_sets,
                   data_sets_missing_sample, missing_ids, missing_ids_GDC,
                   not_in_datasets, total_MDS, total_CMDS, total_DSMS,
                   total_CDSMS, total_MDT, total_CMDT, tsv_written>>

FileRequest == FileRequestFrom(FileLists)

\* requests.post or response.json() raises, or the response has no "data"
\* (lines 208-210): nothing catches the exception, which leaves test_project
\* and the loop of line 672.
FileRequestRaises ==
    /\ pc = "main_loop"
    /\ pidx <= Len(project_id_list)
    /\ pc' = "file_request_raised"
    /\ UNCHANGED <<project_id_list, pidx, file_list, fidx, data_set_list,
                   missing_file_list, files_created, didx, samples,
                   missing_data_sets, data_sets_missing_sample, missing_ids,
                   missing_ids_GDC, not_in_datasets, total_MDS, total_CMDS,
                   total_DSMS, total_CDSMS, total_MDT, total_CMDT, tsv_written>>

\* One turn of the loop of file_metadata (lines 263-303).  An exception leaves
\* the loop, test_project and the script.
FileMetadataStep ==
    /\ pc = "file_metadata"
    /\ fidx <= Len(file_list)
    /\ LET r == file_metadata_body(file_list[fidx], fidx, data_set_list,
                                   project_id, missing_file_list)
       IN  /\ pc' = IF r.raised THEN "raised" ELSE "file_metadata"
           /\ data_set_list' = r.data_set_list
           /\ missing_file_list' = r.missing_file_list
           /\ files_created' = files_created + r.created
    /\ fidx' = fidx + 1
    /\ UNCHANGED <<project_id_list, pidx, file_list, didx, samples,
                   missing_data_sets, data_sets_missing_sample, missing_ids,
                   missing_ids_GDC, not_in_datasets, total_MDS, total_CMDS,
                   total_DSMS, total_CDSMS, total_MDT, total_CMDT, tsv_written>>

\* file_metadata returns (line 304).
FileMetadataReturn ==
    /\ pc = "file_metadata"
    /\ fidx > Len(file_list)
    /\ pc' = "prune"
    /\ UNCHANGED <<project_id_list, pidx, file_list, fidx, data_set_list,
                   missing_file_list, files_created, didx, samples,
                   missing_data_sets, data_sets_missing_sample, missing_ids,
                   missing_ids_GDC, not_in_datasets, total_MDS, total_CMDS,
                   total_DSMS, total_CDSMS, total_MDT, total_CMDT, tsv_written>>

\* Lines 602-609.
Prune ==
    /\ pc = "prune"
    /\ data_set_list' = prune_data_sets(data_set_list)
    /\ missing_data_sets' = <<>>
    /\ data_sets_missing_sample' = <<>>
    /\ missing_ids' = [n \in {d.name : d \in Elements(data_set_list')} |-> None]
    /\ missing_ids_GDC' = [n \in {d.name : d \in Elements(data_set_list')} |-> None]
    /\ didx' = 1
    /\ pc' = "compare"
    /\ UNCHANGED <<project_id_list, pidx, file_list, fidx, missing_file_list,
                   files_created, samples, not_in_datasets, total_MDS,
                   total_CMDS, total_DSMS, total_CDSMS, total_MDT, total_CMDT,
                   tsv_written>>

\* One turn of the loop of lines 612-627.
CompareWith(answers) ==
    /\ pc = "compare"
    /\ didx <= Len(data_set_list)
    /\ \E answer \in answers : samples' = answer
    /\ LET data_set == data_set_list[didx]
           cd == compare_datasets(samples', missing_file_list, data_set)
           cs == compare_samples(samples', data_set, project_id)
       IN  /\ missing_file_list' = cd.missing_file_list
           /\ missing_data_sets' =
                 IF cd.missing THEN Append(missing_data_sets, data_set.name)
                 ELSE missing_data_sets
           /\ data_sets_missing_sample' =
                 IF cs.wrong THEN Append(data_sets_missing_sample, data_set.name)
                 ELSE data_sets_missing_sample
           /\ missing_ids' =
                 [missing_ids EXCEPT ![data_set.name] = Some(cs.missing_ids)]
           /\ missing_ids_GDC' =
                 [missing_ids_GDC EXCEPT
                     ![data_set.name] = Some(cs.missing_ids_GDC_dtype)]
    /\ didx' = didx + 1
    /\ UNCHANGED <<project_id_list, pidx, pc, file_list, fidx, data_set_list,
                   files_created, not_in_datasets, total_MDS, total_CMDS,
                   total_DSMS, total_CDSMS, total_MDT, total_CMDT, tsv_written>>

Compare == CompareWith(XenaSamples)

\* xena.dataset_samples raises (line 395): nothing catches the exception.
XenaDatasetRaises ==
    /\ pc = "compare"
    /\ didx <= Len(data_set_list)
    /\ pc' = "xena_dataset_raised"
    /\ UNCHANGED <<project_id_list, pidx, file_list, fidx, data_set_list,
                   missing_file_list, files_created, didx, samples,
                   missing_data_sets, data_sets_missing_sample, missing_ids,
                   missing_ids_GDC, not_in_datasets, total_MDS, total_CMDS,
                   total_DSMS, total_CDSMS, total_MDT, total_CMDT, tsv_written>>

\* A list that keeps only the entry of the project reported last.
append_Replacing(list, entry) == <<entry>>

\* list.append of lines 662-667.
append(list, entry) == Append(list, entry)

\* Lines 630-667: the rest of test_project.  The list of submitter ids that
\* line 635 binds to missing_file_list is not_in_datasets.
Report ==
    /\ pc = "compare"
    /\ didx > Len(data_set_list)
    /\ LET unique_list ==
               IF Len(missing_file_list) # 0
               THEN remove_missing_duplicates(missing_file_list)
               ELSE EmptyBag
       IN  /\ total_MDT' = append(total_MDT, unique_list)
           /\ total_CMDT' = append(total_CMDT, BagCardinality(unique_list))
    /\ not_in_datasets' = {f.submitter_id : f \in Elements(missing_file_list)}
    /\ total_MDS' = append(total_MDS, missing_data_sets)
    /\ total_CMDS' = append(total_CMDS, Len(missing_data_sets))
    /\ total_DSMS' = append(total_DSMS, data_sets_missing_sample)
    /\ total_CDSMS' = append(total_CDSMS, Len(data_sets_missing_sample))
    /\ pidx' = pidx + 1
    /\ pc' = "main_loop"
    /\ UNCHANGED <<project_id_list, file_list, fidx, data_set_list,
                   missing_file_list, files_created, didx, samples,
                   missing_data_sets, data_sets_missing_sample, missing_ids,
                   missing_ids_GDC, tsv_written>>

\* Line 676, after the last project.
ToTsv ==
    /\ pc = "main_loop"
    /\ pidx > Len(project_id_list)
    /\ tsv_written' = TRUE
    /\ pc' = "done"
    /\ UNCHANGED <<project_id_list, pidx, file_list, fidx, data_set_list,
                   missing_file_list, files_created, didx, samples,
                   missing_data_sets, data_sets_missing_sample, missing_ids,
                   missing_ids_GDC, not_in_datasets, total_MDS, total_CMDS,
                   total_DSMS, total_CDSMS, total_MDT, total_CMDT>>

Next ==
    \/ FileRequest
    \/ FileRequestRaises
    \/ FileMetadataStep
    \/ FileMetadataReturn
    \/ Prune
    \/ Compare
    \/ XenaDatasetRaises
    \/ Report
    \/ ToTsv

Spec == Init /\ [][Next]_vars

---------------------------------------------------------------------------
(* A run over the projects of the GDC *)

MaxProjects == 2

\* test_check without a command line argument (lines 526-528): the project
\* ids that the GDC lists, each once.
RunProjectLists ==
    {q \in UNION {[1..n -> ProjectIds] : n \in 1..MaxProjects} :
        \A i, j \in 1..Len(q) : i # j => q[i] # q[j]}

\* The records of the responses of such a run: a file of star_counts, a file
\* of segment_cnv, a file of no dataset and a record without "cases".
RunFiles ==
    [star |-> RawFile("Gene Expression Quantification", "STAR - Counts",
                      Absent, Absent, TRUE,
                      Case(TRUE, <<Sample("Tumor", "ABC1")>>)),
     segment |-> RawFile("Copy Number Segment", Absent, Absent, "WGS", TRUE,
                         Case(TRUE, <<Sample("Tumor", "ABC2")>>)),
     other |-> RawFile("Gene Expression Quantification", Absent, Absent,
                       Absent, TRUE, Case(TRUE, <<Sample("Tumor", "ABC1")>>)),
     no_cases |-> RawFile("Gene Expression Quantification", "STAR - Counts",
                          Absent, Absent, FALSE, Case(FALSE, <<>>))]

\* file_request in such a run.
RunFileLists ==
    { <<>>, <<RunFiles.star>>, <<RunFiles.other>>, <<RunFiles.no_cases>>,
      <<RunFiles.star, RunFiles.segment>>, <<RunFiles.segment, RunFiles.other>> }

\* xena.dataset_samples in such a run.
RunXenaSamples == { <<>>, <<"ABC1">>, <<"ABC1", "ABC2">> }

InitRun == project_id_list \in RunProjectLists /\ Start

RunFileRequest == FileRequestFrom(RunFileLists)

RunCompare == CompareWith(RunXenaSamples)

NextRun ==
    \/ RunFileRequest
    \/ FileRequestRaises
    \/ FileMetadataStep
    \/ FileMetadataReturn
    \/ Prune
    \/ RunCompare
    \/ XenaDatasetRaises
    \/ Report
    \/ ToTsv

SpecRun == InitRun /\ [][NextRun]_vars

---------------------------------------------------------------------------
(* Properties of normalization and classification *)

\* The number of files of file id i in a list of File objects.
CountIn(list, i) == Cardinality({k \in 1..Len(list) : list[k].file_id = i})

RECURSIVE SumFiles(_)
SumFiles(dsl) ==
    IF dsl = <<>> THEN 0 ELSE Len(dsl[1].files) + SumFiles(Tail(dsl))

\* The number of positions of the datasets' files lists that hold a File of
\* file id i.
RECURSIVE CountInDatasets(_, _)
CountInDatasets(dsl, i) ==
    IF dsl = <<>> THEN 0
    ELSE CountIn(dsl[1].files, i) + CountInDatasets(Tail(dsl), i)

\* The number of places that hold the File of file id i.
Places(i) == CountIn(missing_file_list, i) + CountInDatasets(data_set_list, i)

\* The File objects of the datasets and of missing_file_list.
AllFiles ==
    Elements(missing_file_list)
    \cup UNION {Elements(data_set_list[k].files) : k \in 1..Len(data_set_list)}

\* file_metadata is running or has just returned: the datasets are those of
\* the catalog and missing_file_list holds the files that matched none.
Classifying == pc \in {"file_metadata", "prune"}

\* C1: while file_metadata runs and when it has returned, no File object is in
\* two places and the File objects created are as many as the files of the
\* datasets plus those of missing_file_list: each one is in exactly one place.
C1_ExactlyOneDestination ==
    Classifying =>
        /\ \A i \in 1..Len(file_list) : Places(i) <= 1
        /\ files_created = SumFiles(data_set_list) + Len(missing_file_list)

\* file_metadata has returned with one file in a dataset and one in
\* missing_file_list.
C1_Witness ==
    /\ pc = "prune"
    /\ files_created = 2
    /\ SumFiles(data_set_list) = 1
    /\ Len(missing_file_list) = 1

\* A field of a dataset accepts a value of a file when it is the wildcard ''
\* or equals it up to case.
Accepts(required, actual) == required = "" \/ lower(required) = lower(actual)

AcceptsAll(d, f) ==
    /\ Accepts(d.data_type, f.data_type)
    /\ Accepts(d.workflow_type, f.workflow_type)
    /\ Accepts(d.platform, f.platform)
    /\ Accepts(d.experimental_strategy, f.experimental_strategy)

\* C2: a file of a dataset is accepted by that dataset on all four fields and
\* by no dataset before it in the catalog; a file of missing_file_list is
\* accepted by no dataset.
C2_FirstMatchWins ==
    Classifying =>
        /\ \A k \in 1..Len(data_set_list) :
              \A f \in Elements(data_set_list[k].files) :
                  /\ AcceptsAll(data_set_list[k], f)
                  /\ \A h \in 1..(k - 1) : ~AcceptsAll(data_set_list[h], f)
        /\ \A f \in Elements(missing_file_list) :
              \A k \in 1..Len(data_set_list) : ~AcceptsAll(data_set_list[k], f)

\* star_counts holds a file that its twin star_counts_copy accepts as well,
\* whose data type is in lower case and whose platform is the empty string.
C2_Witness ==
    /\ pc = "prune"
    /\ Len(data_set_list[1].files) = 1
    /\ data_set_list[1].files[1].data_type = "gene expression quantification"
    /\ data_set_list[1].files[1].platform = ""
    /\ AcceptsAll(data_set_list[2], data_set_list[1].files[1])
    /\ data_set_list[2].files = <<>>

\* The project that the variables of test_project are of: the one that is
\* running or, between two calls, the one that ran last.
CurrentProject ==
    project_id_list[IF /\ pc \in {"main_loop", "done", "file_request_raised"}
                       /\ pidx > 1
                    THEN pidx - 1 ELSE pidx]

\* The records that file_metadata has gone through.
Processed == 1..(fidx - 1)

\* A record of an excluded strategy, of an excluded category, or a copy number
\* segment of DNAcopy.
Excluded(file) ==
    \/ Get(file, "experimental_strategy") \in UNUSED_EXPERIMENTAL_STRATEGY
    \/ Get(file, "data_type") \in UNUSED_DATA_TYPE
    \/ /\ Get(file, "data_type") = "Copy Number Segment"
       /\ Get(file, "workflow_type") = "DNAcopy"

\* C3: an excluded record gives no File object: none of its file id is in a
\* dataset or in missing_file_list, and the File objects created are no more
\* than the records gone through that are not excluded.
C3_ExcludedGivesNoFile ==
    /\ \A i \in Processed :
          Excluded(file_list[i]) => \A f \in AllFiles : f.file_id # i
    /\ files_created
          <= Cardinality({i \in Processed : ~Excluded(file_list[i])})

\* CPTAC-3 has gone through a record of star_counts with a tumor sample that
\* the strategy scRNA-Seq excludes.
C3_Witness ==
    /\ project_id_list = <<"CPTAC-3">>
    /\ pc = "prune"
    /\ Len(file_list) = 1
    /\ file_list[1].experimental_strategy = "scRNA-Seq"
    /\ file_list[1].data_type = "Gene Expression Quantification"
    /\ file_list[1].workflow_type = "STAR - Counts"
    /\ file_list[1].has_cases
    /\ file_list[1].case.samples = <<Sample("Tumor", "ABC1")>>
    /\ AllFiles = {}

\* Every sample of the record has a submitter id.
SamplesHaveIds(file) ==
    \A k \in 1..Len(file.case.samples) :
        file.case.samples[k].submitter_id # Absent

\* The positions of the tumor samples of a record.
TumorSamples(file) ==
    {k \in 1..Len(file.case.samples) :
        file.case.samples[k].tissue_type = "Tumor"}

\* The least element of a set of numbers that is not empty.
Least(S) == CHOOSE k \in S : \A h \in S : k <= h

\* The File objects made from record i.
FilesOf(i) == {f \in AllFiles : f.file_id = i}

C4_WitnessCPTAC ==
    /\ project_id_list = <<"CPTAC-3">>
    /\ pc = "prune"
    /\ Len(file_list) = 1
    /\ file_list[1].data_type = "Copy Number Segment"
    /\ file_list[1].has_cases
    /\ file_list[1].case.samples =
          <<Sample("Normal", "ABC1"), Sample("Tumor", "ABC2")>>
    /\ \E f \in AllFiles : f.file_id = 1 /\ f.submitter_id = "C3L-1"

\* A tumor-only record without a tumor sample has gone through: no File.
C4_WitnessNoTumor ==
    /\ pc = "prune"
    /\ Len(file_list) = 1
    /\ file_list[1].data_type = "Copy Number Segment"
    /\ file_list[1].workflow_type = Absent
    /\ file_list[1].experimental_strategy = "WGS"
    /\ file_list[1].has_cases
    /\ file_list[1].case.samples = <<Sample("Normal", "ABC1")>>
    /\ AllFiles = {}

---------------------------------------------------------------------------
(* Properties of the comparison with Xena *)

\* A turn of the loop of test_project has run: the dataset it compared and
\* the answer of Xena it compared it with (samples).
Compared == pc = "compare" /\ didx > 1
LastDataSet == data_set_list[didx - 1]

\* The file ids of a list of File objects.
FileIds(list) == {list[k].file_id : k \in 1..Len(list)}

\* The datasets that the loop has compared.
ComparedDataSets == {data_set_list[k] : k \in 1..(didx - 1)}

\* The project has been reported: its entries of the lists of the TSV file.
Reported == pc \in {"main_loop", "done"} /\ pidx > 1

\* C5: the dataset compared last is recorded as missing exactly if Xena
\* answered with no sample; every file of a compared dataset that is recorded
\* as missing is in missing_file_list and no file of another compared dataset
\* is; missing_file_list holds nothing but the files that matched no dataset
\* and the files of the missing datasets.  In the report, the submitter id of
\* every file of a missing dataset is in not_in_datasets and its joined
\* fields are among the missing data types.
C5_MissingDatasetFolded ==
    /\ Compared =>
          /\ (LastDataSet.name \in Elements(missing_data_sets))
                <=> (Len(samples) = 0)
          /\ \A d \in ComparedDataSets :
                IF d.name \in Elements(missing_data_sets)
                THEN FileIds(d.files) \subseteq FileIds(missing_file_list)
                ELSE FileIds(d.files) \cap FileIds(missing_file_list) = {}
          /\ Len(missing_file_list) + SumFiles(data_set_list)
                = files_created
                  + Cardinality(UNION {FileIds(d.files) :
                       d \in {c \in ComparedDataSets :
                                c.name \in Elements(missing_data_sets)}})
    /\ Reported =>
          \A d \in Elements(data_set_list) :
              d.name \in Elements(total_MDS[pidx - 1]) =>
                  \A f \in Elements(d.files) :
                      /\ f.submitter_id \in not_in_datasets
                      /\ BagIn(Joined(f), total_MDT[pidx - 1])

\* Xena has no sample of a dataset of two files: the dataset is reported as
\* missing and not_in_datasets has the ids of both.
C5_Witness ==
    /\ Reported
    /\ Len(data_set_list) = 1
    /\ Len(data_set_list[1].files) = 2
    /\ total_MDS[pidx - 1] = <<data_set_list[1].name>>
    /\ not_in_datasets = {"ABC1", "ABC2"}

\* The ids of a compared dataset on the side of the GDC: the submitter ids of
\* its files, each without its last character for BEATAML1.0-COHORT.
SourceIds(d) ==
    IF CurrentProject = "BEATAML1.0-COHORT"
    THEN {SubSeq(f.submitter_id, 1, Len(f.submitter_id) - 1) :
             f \in Elements(d.files)}
    ELSE {f.submitter_id : f \in Elements(d.files)}

\* The ids of the dataset compared last on the side of Xena.
TargetIds == Elements(samples)

C6_WitnessMore ==
    /\ Compared
    /\ Cardinality(TargetIds) > Cardinality(SourceIds(LastDataSet))
    /\ LastDataSet.name \in Elements(data_sets_missing_sample)

\* C7: the two lists recorded for the dataset compared last are the ids of
\* the GDC without those of Xena and the ids of Xena without those of the
\* GDC, so neither meets the other side and the ids of both sides are the
\* ids of the GDC without the first list; a dataset not yet compared has None.
C7_IdDifferences ==
    /\ Compared =>
          LET S == SourceIds(LastDataSet)
              T == TargetIds
              onlyInSource == missing_ids[LastDataSet.name][1]
              onlyInTarget == missing_ids_GDC[LastDataSet.name][1]
          IN  /\ missing_ids[LastDataSet.name] = Some(S \ T)
              /\ missing_ids_GDC[LastDataSet.name] = Some(T \ S)
              /\ onlyInSource \cap T = {}
              /\ onlyInTarget \cap S = {}
              /\ S \cap T = S \ onlyInSource
    /\ pc = "compare" =>
          \A k \in didx..Len(data_set_list) :
              /\ missing_ids[data_set_list[k].name] = None
              /\ missing_ids_GDC[data_set_list[k].name] = None

\* Equal counts and one id on each side only.
C7_Witness ==
    /\ Compared
    /\ SourceIds(LastDataSet) = {"ABC1", "ABC2"}
    /\ TargetIds = {"ABC1", "S4"}
    /\ missing_ids[LastDataSet.name] = Some({"ABC2"})
    /\ missing_ids_GDC[LastDataSet.name] = Some({"S4"})

\* C8: for BEATAML1.0-COHORT the comparison of the dataset compared last is
\* that of the submitter ids without their last character, for every other
\* project that of the submitter ids as they are: the wrong count and the two
\* lists are those of these ids.
C8_BeatAmlSuffix ==
    Compared =>
        LET ids == {f.submitter_id : f \in Elements(LastDataSet.files)}
            S == IF CurrentProject = "BEATAML1.0-COHORT"
                 THEN {SubSeq(id, 1, Len(id) - 1) : id \in ids}
                 ELSE ids
        IN  /\ missing_ids[LastDataSet.name] = Some(S \ TargetIds)
            /\ missing_ids_GDC[LastDataSet.name] = Some(TargetIds \ S)
            /\ (LastDataSet.name \in Elements(data_sets_missing_sample))
                  <=> (Cardinality(S) # Cardinality(TargetIds))

\* The files of ABC1 and ABC2 of one dataset of BEATAML1.0-COHORT are one
\* id, ABC, which Xena has: no wrong count, nothing missing on either side.
C8_Witness ==
    /\ project_id_list = <<"BEATAML1.0-COHORT">>
    /\ Compared
    /\ {f.submitter_id : f \in Elements(LastDataSet.files)} = {"ABC1", "ABC2"}
    /\ samples = <<"ABC">>
    /\ data_sets_missing_sample = <<>>
    /\ missing_ids[LastDataSet.name] = Some({})
    /\ missing_ids_GDC[LastDataSet.name] = Some({})

\* For TCGA-BRCA the same files are two ids.
C8_WitnessOther ==
    /\ project_id_list = <<"TCGA-BRCA">>
    /\ Compared
    /\ {f.submitter_id : f \in Elements(LastDataSet.files)} = {"ABC1", "ABC2"}
    /\ samples = <<"ABC1", "ABC2">>
    /\ data_sets_missing_sample = <<>>
    /\ missing_ids[LastDataSet.name] = Some({})

---------------------------------------------------------------------------
(* Properties of pruning and of the removal of duplicates *)

\* The names of the datasets of a list, in its order.
Names(dsl) == [k \in 1..Len(dsl) |-> dsl[k].name]

\* The names of the datasets of the catalog that accept a File before any
\* other dataset does: the datasets with a classified file.
ClassifiedNames ==
    LET catalog == create_data_set(CurrentProject)
        files == AllFiles
    IN  {catalog[k].name : k \in
            {k \in 1..Len(catalog) :
                \E f \in files :
                    /\ AcceptsAll(catalog[k], f)
                    /\ \A h \in 1..(k - 1) : ~AcceptsAll(catalog[h], f)}}

\* The step of test_project that prunes the datasets.
PruneStep == pc = "prune" /\ pc' = "compare"

\* C9: from pruning on, the datasets of the project are, in the order of the
\* catalog, those with a classified file, each has at least one file and no
\* File created is lost: the datasets removed are those without a file.  The
\* dictionaries of ids have the names of these datasets as keys, only they are
\* recorded as missing or with a wrong count, and when the project is
\* reported each has been compared.
C9_PruneKeepsNonEmpty ==
    (pc = "compare" \/ Reported) =>
        /\ LET classified == ClassifiedNames
           IN  Names(data_set_list) =
                  SelectSeq(Names(create_data_set(CurrentProject)),
                            LAMBDA n : n \in classified)
        /\ \A d \in Elements(data_set_list) : Len(d.files) >= 1
        /\ Cardinality({f.file_id : f \in AllFiles}) = files_created
        /\ DOMAIN missing_ids = Elements(Names(data_set_list))
        /\ DOMAIN missing_ids_GDC = Elements(Names(data_set_list))
        /\ Elements(missing_data_sets) \subseteq Elements(Names(data_set_list))
        /\ Elements(data_sets_missing_sample)
              \subseteq Elements(Names(data_set_list))
        /\ Reported =>
              \A n \in DOMAIN missing_ids :
                  missing_ids[n] # None /\ missing_ids_GDC[n] # None

\* The same of the step that prunes: the list after it is the list before it
\* without the datasets that have no file.
C9_PruneStepRelation ==
    [][PruneStep =>
          data_set_list' =
              SelectSeq(data_set_list, LAMBDA d : Len(d.files) # 0)]_vars

\* Two of the four datasets of the catalog have a file and are kept, in the
\* order of the catalog.
C9_Witness ==
    /\ pc = "compare"
    /\ Names(data_set_list) = <<"star_counts", "segment_cnv">>
    /\ Len(data_set_list[1].files) = 1
    /\ Len(data_set_list[2].files) = 1

\* The lists that list(set) may give for a set.
ListsOf(S) == {q \in [1..Cardinality(S) -> S] : Elements(q) = S}

---------------------------------------------------------------------------
(* Records without the fields of a sample identifier *)

\* A record without "cases", without "samples", with an empty sample list, or
\* with a sample that has no tissue type or no submitter id.
Malformed(file) ==
    \/ ~file.has_cases
    \/ ~file.case.has_samples
    \/ file.case.samples = <<>>
    \/ \E k \in 1..Len(file.case.samples) :
          \/ file.case.samples[k].tissue_type = Absent
          \/ file.case.samples[k].submitter_id = Absent

\* file_metadata has left the loop with an exception at record i.
RaisedAt(i) == pc = "raised" /\ i = fidx - 1

\* C11: a record that is not excluded and lacks the fields of a sample
\* identifier is dropped without an exception: once file_metadata has gone
\* through it there is no File object of it and the loop has not been left at
\* it.
C11_MalformedDiscarded ==
    \A i \in Processed :
        (~Excluded(file_list[i]) /\ Malformed(file_list[i])) =>
            /\ FilesOf(i) = {}
            /\ ~RaisedAt(i)

\* What file_metadata does with such a record: without "cases" or "samples"
\* it raises; it is dropped in silence only when its data type is tumor-only
\* and the scan of lines 285 and 294 finds no tumor sample and reads no missing
\* field; a record of another data type raises or gives a File, which CPTAC-3
\* makes of the case id whatever the sample list holds.
C11_MalformedOutcome ==
    \A i \in Processed :
        LET file == file_list[i]
            r == SubmitterId(file, CurrentProject)
        IN  (~Excluded(file) /\ Malformed(file)) =>
               /\ RaisedAt(i) <=> r.raised
               /\ (~file.has_cases \/ ~file.case.has_samples) => r.raised
               /\ (FilesOf(i) # {}) <=> (~r.raised /\ r.submitter_id # "")
               /\ Get(file, "data_type") \notin TUMOR_DATA_TYPE =>
                     /\ r.raised \/ FilesOf(i) # {}
                     /\ (/\ CurrentProject = "CPTAC-3"
                         /\ file.has_cases /\ file.case.has_samples)
                            => \E f \in FilesOf(i) :
                                  f.submitter_id = file.case.submitter_id

\* A record of star_counts without "cases" has stopped TCGA-BRCA.
C11_RaisedWithoutCases ==
    /\ project_id_list = <<"TCGA-BRCA">>
    /\ Len(file_list) = 1
    /\ file_list[1].data_type = "Gene Expression Quantification"
    /\ ~file_list[1].has_cases
    /\ RaisedAt(1)

\* A copy number segment with an empty sample list has gone through without a
\* File and without an exception.
C11_DiscardedEmptySamples ==
    /\ pc = "prune"
    /\ Len(file_list) = 1
    /\ file_list[1].data_type = "Copy Number Segment"
    /\ ~Excluded(file_list[1])
    /\ file_list[1].has_cases /\ file_list[1].case.has_samples
    /\ file_list[1].case.samples = <<>>
    /\ AllFiles = {}

---------------------------------------------------------------------------
(* Failed calls to the GDC and to the Xena hub *)

\* The file request or the sample request of the running project has raised.
CallFailed == pc \in {"file_request_raised", "xena_dataset_raised"}

\* The script has ended: no statement is left to run.
Ended == ~ENABLED NextRun

\* Project k has an entry in the lists of the report and the report has been
\* written.
ProjectReported(k) == k <= Len(total_MDS) /\ tsv_written

\* C12: a failed file request or sample request aborts only its project: when
\* the script has ended after one, every other project of the run has been
\* processed and is in the written report.
C12_FailedCallAbortsOnlyItsProject ==
    (CallFailed /\ Ended) =>
        \A k \in 1..Len(project_id_list) : k # pidx => ProjectReported(k)

\* What the script does: a failed call ends it at once, in the project it was
\* in; the projects before it keep their entries, the projects after it have
\* none, and no report is written.
C12_FailedCallEndsRun ==
    CallFailed =>
        /\ Ended
        /\ ~tsv_written
        /\ Len(total_MDS) = pidx - 1
        /\ Len(total_DSMS) = pidx - 1
        /\ Len(total_MDT) = pidx - 1

\* The file request of the first of two projects has failed: the second is
\* never processed.
C12_FirstProjectFailed ==
    /\ Len(project_id_list) = 2
    /\ pidx = 1
    /\ pc = "file_request_raised"
    /\ Ended

\* The sample request of the second of two projects has failed: the first has
\* its entries and no report is written.
C12_SecondProjectFailed ==
    /\ Len(project_id_list) = 2
    /\ pidx = 2
    /\ pc = "xena_dataset_raised"
    /\ Len(total_MDS) = 1
    /\ Ended
    /\ ~tsv_written

---------------------------------------------------------------------------
(* The lists of the report *)

\* total_MDS, total_CMDS, total_DSMS, total_CDSMS, total_MDT, total_CMDT.
Totals ==
    <<total_MDS, total_CMDS, total_DSMS, total_CDSMS, total_MDT, total_CMDT>>

\* A list after one append, whatever the entry.
Grown(before, after) ==
    Len(after) = Len(before) + 1 /\ SubSeq(after, 1, Len(before)) = before

\* Each list has one entry for each of the first n projects and each count is
\* the length of the entry it counts.
AlignedTo(n) ==
    /\ \A t \in 1..6 : Len(Totals[t]) = n
    /\ \A i \in 1..n :
          /\ total_CMDS[i] = Len(total_MDS[i])
          /\ total_CDSMS[i] = Len(total_DSMS[i])
          /\ total_CMDT[i] = BagCardinality(total_MDT[i])

\* A step of the script: no list loses or changes an entry; the lists grow
\* together, by one entry each, exactly when the loop of line 672 moves to
\* the next project, and the new entries, at the position of that project in
\* project_id_list, are the names and the data types that test_project has
\* found for it; to_tsv runs with one entry for every project.
ReportStep ==
    /\ \A t \in 1..6 : Totals'[t] = Totals[t] \/ Grown(Totals[t], Totals'[t])
    /\ IF pidx' # pidx
       THEN /\ pidx' = pidx + 1
            /\ \A t \in 1..6 : Grown(Totals[t], Totals'[t])
            /\ total_MDS'[pidx] = missing_data_sets
            /\ total_DSMS'[pidx] = data_sets_missing_sample
            /\ total_MDT'[pidx] =
                  IF missing_file_list = <<>> THEN EmptyBag
                  ELSE remove_missing_duplicates(missing_file_list)
            /\ project_id_list'[pidx] = project_id
       ELSE Totals' = Totals
    /\ AlignedTo(pidx - 1)'
    /\ project_id_list' = project_id_list
    /\ tsv_written' => AlignedTo(Len(project_id_list))'

\* C13: the six lists of the report are append-only and stay aligned with
\* project_id_list: processing the k-th project appends one entry to each, at
\* position k, and changes no earlier entry; to_tsv runs with one entry per
\* project and with every count equal to the length of its entry.
C13_TotalsAlignedWithProjects == [][ReportStep]_vars

\* The same alignment as a property of every state.
C13_TotalsAligned ==
    /\ AlignedTo(pidx - 1)
    /\ tsv_written => pidx - 1 = Len(project_id_list)

\* to_tsv has run for two projects whose entries differ: the first has a
\* missing dataset and the second has none.
C13_Witness ==
    /\ tsv_written
    /\ Len(project_id_list) = 2
    /\ AlignedTo(2)
    /\ total_CMDS = <<1, 0>>
    /\ total_MDS[1] # total_MDS[2]
    /\ total_MDT[1] # total_MDT[2]

---------------------------------------------------------------------------
(* Missing datasets and wrong sample counts *)

\* The loop of lines 612-627 is running or has run for the current project.
Comparing == pc \in {"compare", "xena_dataset_raised"} \/ Reported

\* C14: every dataset recorded as missing is recorded with a wrong sample
\* count as well: the dataset compared last is in both lists when Xena
\* answered with no sample, the names of the missing datasets are among the
\* names of the datasets with a wrong count, in the lists of the project and in
\* every entry of the report, and for a missing dataset missing_ids holds all
\* its ids of the GDC and missing_ids_GDC holds none.
C14_MissingImpliesWrongCount ==
    /\ (Compared /\ samples = <<>>) =>
          /\ LastDataSet.name \in Elements(missing_data_sets)
          /\ LastDataSet.name \in Elements(data_sets_missing_sample)
    /\ Comparing =>
          /\ Elements(missing_data_sets) \subseteq Elements(data_sets_missing_sample)
          /\ \A d \in Elements(data_set_list) :
                d.name \in Elements(missing_data_sets) =>
                   /\ SourceIds(d) # {}
                   /\ missing_ids[d.name] = Some(SourceIds(d))
                   /\ missing_ids_GDC[d.name] = Some({})
    /\ \A i \in 1..Len(total_MDS) :
          /\ Elements(total_MDS[i]) \subseteq Elements(total_DSMS[i])
          /\ total_CMDS[i] <= total_CDSMS[i]

\* Of two datasets, Xena has no sample of star_counts and has the sample of
\* segment_cnv: star_counts alone is in both lists, with its id of the GDC.
C14_Witness ==
    /\ pc = "compare"
    /\ Names(data_set_list) = <<"star_counts", "segment_cnv">>
    /\ didx = 3
    /\ missing_data_sets = <<"star_counts">>
    /\ data_sets_missing_sample = <<"star_counts">>
    /\ missing_ids["star_counts"] = Some({"ABC1"})
    /\ missing_ids_GDC["star_counts"] = Some({})
    /\ missing_ids["segment_cnv"] = Some({})

=============================================================================
